---- MODULE Spec2Model ----
(***************************************************************************)
(* Model of app.py: a Streamlit dashboard over a SQLite file "data.db"     *)
(* with two tables, uploads and fact_capital.                              *)
(*                                                                         *)
(* db      the committed content of data.db: both tables in rowid order    *)
(*         and the sqlite_sequence counters kept for AUTOINCREMENT.        *)
(* locked  TRUE while a connection that save_upload left open on an        *)
(*         exception path is still alive: the function closes its          *)
(*         connection only on the normal path, and the open connection     *)
(*         keeps its pending write transaction (and with it the database's *)
(*         write lock) until the interpreter collects it.                  *)
(* clock   the number of readings of datetime.now() taken so far.          *)
(* last    the latest call of save_upload / delete_upload / script run,    *)
(*         with the committed store it started from.                       *)
(* view    what the latest script run (render cycle) computed and how far  *)
(*         it got.                                                         *)
(***************************************************************************)
EXTENDS Integers, Sequences, FiniteSets, TLC

VARIABLES db, locked, clock, last, view

vars == <<db, locked, clock, last, view>>

\* ------------------------------------------------------------------ bounds
\* calls of save_upload in one behaviour (each reads the clock once)
MaxClock == 2
\* data rows of a spreadsheet handed to save_upload in Spec
MaxRows == 2
\* data rows of the spreadsheet the store of SpecView is built from
MaxFacts == 3
\* distinct calendar days that occur in spreadsheets and date pickers
MaxDay == 2

Days == 1..MaxDay

\* ------------------------------------------------------- spreadsheet cells
\* A Fecha cell is a pandas Timestamp (a day, at midnight) or a text cell.
Timestamp(d) == [type |-> "Timestamp", day |-> d, text |-> ""]
Text(s) == [type |-> "str", day |-> 0, text |-> s]

\* A cell holding a datetime.time object, a type sqlite3 has no adapter for.
TimeCell == "datetime.time"

\* The header names save_upload reads from every row.
Expected ==
  {"Fecha", "Centro", "Concepto", "Inicial", "Aportacion", "Retiro",
   "Rendimiento", "Saldo"}

\* str(row["Fecha"]): a Timestamp prints as "2024-01-0d 00:00:00", a text
\* cell is stored as it is.
str(cell) ==
  IF cell.type = "Timestamp"
    THEN "2024-01-0" \o ToString(cell.day) \o " 00:00:00"
    ELSE cell.text

\* Days of the month whose printed form has the shape above.
PrintedDays == 1..9

\* pd.to_datetime on one stored text: the day it parses to, or 0 when
\* pandas raises (errors="raise" is the default).
to_datetime(text) ==
  IF \E d \in PrintedDays : str(Timestamp(d)) = text
    THEN CHOOSE d \in PrintedDays : str(Timestamp(d)) = text
    ELSE 0

\* ------------------------------------------------------------------ store
init_db ==
  [uploads |-> <<>>,
   fact_capital |-> <<>>,
   sqlite_sequence |-> [uploads |-> 0, fact_capital |-> 0]]

\* datetime.now().isoformat() for the t-th reading of the clock.
isoformat(t) == "2024-01-01T00:00:0" \o ToString(t)

\* INSERT INTO uploads (filename, timestamp): AUTOINCREMENT hands out the
\* successor of the largest id the table ever held.
InsertUpload(tx, filename, timestamp) ==
  LET upload_id == tx.sqlite_sequence.uploads + 1 IN
  [tx EXCEPT
     !.uploads = Append(@, [upload_id |-> upload_id,
                            filename |-> filename,
                            timestamp |-> timestamp]),
     !.sqlite_sequence.uploads = upload_id]

\* cur.lastrowid after the insert into uploads.
lastrowid(tx) == tx.sqlite_sequence.uploads

\* INSERT INTO fact_capital (...) VALUES (...) for one spreadsheet row.
InsertFact(tx, row, upload_id) ==
  LET id == tx.sqlite_sequence.fact_capital + 1 IN
  [tx EXCEPT
     !.fact_capital = Append(@, [id |-> id,
                                 fecha |-> str(row.Fecha),
                                 centro |-> row.Centro,
                                 concepto |-> row.Concepto,
                                 inicial |-> row.Inicial,
                                 aportacion |-> row.Aportacion,
                                 retiro |-> row.Retiro,
                                 rendimiento |-> row.Rendimiento,
                                 saldo |-> row.Saldo,
                                 upload_id |-> upload_id]),
     !.sqlite_sequence.fact_capital = id]

\* sqlite3 binds str, int, float, None and datetime; anything else raises.
Bindable(row) == row.Centro # TimeCell /\ row.Concepto # TimeCell

\* The loop over df.iterrows(): statement i+1 of the call inserts row i.
\* It stops at the first row that raises (a missing header is a KeyError
\* while the parameter tuple is built, an unbindable cell a
\* ProgrammingError inside execute) or when the process is killed after
\* kill_at statements (kill_at = 0: it is not killed).
RECURSIVE iterrows(_, _, _, _, _)
iterrows(tx, file, upload_id, i, kill_at) ==
  IF kill_at = i THEN [tx |-> tx, outcome |-> "killed"]
  ELSE IF i > Len(file.rows) THEN [tx |-> tx, outcome |-> "returned"]
  ELSE IF ~(Expected \subseteq file.columns)
    THEN [tx |-> tx, outcome |-> "KeyError"]
  ELSE IF ~Bindable(file.rows[i])
    THEN [tx |-> tx, outcome |-> "ProgrammingError"]
  ELSE iterrows(InsertFact(tx, file.rows[i], upload_id), file, upload_id,
                i + 1, kill_at)

\* A plausible slip: a connection in autocommit mode (isolation_level=None)
\* makes every statement durable at once, so a failing call keeps its prefix.
save_upload_autocommit(d, lock, file, timestamp, kill_at) ==
  IF lock
    THEN [db |-> d, outcome |-> "OperationalError", leaked |-> FALSE]
  ELSE
    LET tx0 == InsertUpload(d, file.name, isoformat(timestamp))
        r == IF ~file.readable
               THEN [tx |-> tx0, outcome |-> "read_excel"]
               ELSE iterrows(tx0, file, lastrowid(tx0), 1, kill_at)
    IN [db |-> r.tx, outcome |-> r.outcome, leaked |-> FALSE]

\* save_upload(file) on the committed store d. The statements run inside
\* the transaction sqlite3 opens before the first INSERT; only conn.commit()
\* at the end publishes it. Every other exit leaves the transaction
\* uncommitted, so the committed store stays d; an exception leaves the
\* connection open as well (leaked), a killed process does not survive to
\* hold it. With the write lock already taken the first INSERT raises.
save_upload(d, lock, file, timestamp, kill_at) ==
  IF lock
    THEN [db |-> d, outcome |-> "OperationalError", leaked |-> FALSE]
  ELSE
    LET tx0 == InsertUpload(d, file.name, isoformat(timestamp))
        r == IF ~file.readable
               THEN [tx |-> tx0, outcome |-> "read_excel"]
               ELSE iterrows(tx0, file, lastrowid(tx0), 1, kill_at)
    IN IF r.outcome = "returned"
         THEN [db |-> r.tx, outcome |-> "returned", leaked |-> FALSE]
         ELSE [db |-> d, outcome |-> r.outcome,
               leaked |-> r.outcome # "killed"]

\* SELECT * FROM fact_capital, then pd.to_datetime over the fecha column
\* unless the frame is empty. raised: to_datetime met a text it cannot parse.
load_data(d) ==
  LET t == d.fact_capital IN
  IF t = <<>> THEN [raised |-> FALSE, df |-> <<>>]
  ELSE IF \E i \in DOMAIN t : to_datetime(t[i].fecha) = 0
    THEN [raised |-> TRUE, df |-> <<>>]
  ELSE [raised |-> FALSE,
        df |-> [i \in DOMAIN t |-> [t[i] EXCEPT !.fecha = to_datetime(@)]]]

\* SELECT * FROM uploads ORDER BY upload_id DESC
get_uploads(d) ==
  [i \in DOMAIN d.uploads |-> d.uploads[Len(d.uploads) + 1 - i]]

\* A plausible slip: the fact rows are matched on their own id column.
DeleteFacts_by_id(tx, upload_id) ==
  LET Keep(r) == r.id # upload_id IN
  [tx EXCEPT !.fact_capital = SelectSeq(@, Keep)]

\* DELETE FROM fact_capital WHERE upload_id = ?
DeleteFacts(tx, upload_id) ==
  LET Keep(r) == r.upload_id # upload_id IN
  [tx EXCEPT !.fact_capital = SelectSeq(@, Keep)]

\* DELETE FROM uploads WHERE upload_id = ?
DeleteUploads(tx, upload_id) ==
  LET Keep(r) == r.upload_id # upload_id IN
  [tx EXCEPT !.uploads = SelectSeq(@, Keep)]

\* A plausible slip: only the uploads row is deleted (no cascade).
delete_upload_no_cascade(d, lock, upload_id, kill_at) ==
  IF lock THEN [db |-> d, outcome |-> "OperationalError", leaked |-> FALSE]
  ELSE IF kill_at # 0 THEN [db |-> d, outcome |-> "killed", leaked |-> FALSE]
  ELSE [db |-> DeleteUploads(d, upload_id), outcome |-> "returned",
        leaked |-> FALSE]

\* delete_upload(upload_id) on the committed store d: two DELETEs in one
\* transaction, published by conn.commit(). Killed after kill_at statements
\* (1 or 2) the transaction is never committed. With the write lock already
\* taken the first DELETE raises.
delete_upload(d, lock, upload_id, kill_at) ==
  IF lock THEN [db |-> d, outcome |-> "OperationalError", leaked |-> FALSE]
  ELSE
    LET tx1 == DeleteFacts(d, upload_id)
        tx2 == DeleteUploads(tx1, upload_id)
    IN IF kill_at # 0
         THEN [db |-> d, outcome |-> "killed", leaked |-> FALSE]
         ELSE [db |-> tx2, outcome |-> "returned", leaked |-> FALSE]

\* --------------------------------------------------------------- reporter
\* df[col].unique(): the values a column takes.
unique(df, col) == {df[i][col] : i \in DOMAIN df}

\* df[df["centro"] == centro]
FilterCentro(df, centro) ==
  LET Test(r) == r.centro = centro IN SelectSeq(df, Test)

\* The "Todos" sentinel leaves the frame alone; any other choice keeps the
\* rows of that concepto.
FilterConcepto(df, concepto) ==
  LET Test(r) == r.concepto = concepto IN
  IF concepto # "Todos" THEN SelectSeq(df, Test) ELSE df

\* The date filter applies only when the picker holds two dates.
FilterFecha(df, date_range) ==
  LET Test(r) == r.fecha >= date_range[1] /\ r.fecha <= date_range[2] IN
  IF Len(date_range) = 2 THEN SelectSeq(df, Test) ELSE df

\* df[col].sum()
RECURSIVE sum(_, _)
sum(df, col) ==
  IF df = <<>> THEN 0 ELSE df[1][col] + sum(Tail(df), col)

\* The keys of a groupby in ascending order (sort=True is the default).
RECURSIVE SortedKeys(_)
SortedKeys(S) ==
  IF S = {} THEN <<>>
  ELSE LET m == CHOOSE x \in S : \A y \in S : x <= y IN
       <<m>> \o SortedKeys(S \ {m})

\* A plausible slip: the frame is passed on without aggregation.
groupby_none(df) ==
  [i \in DOMAIN df |->
     [fecha |-> df[i].fecha, inicial |-> df[i].inicial,
      aportacion |-> df[i].aportacion, retiro |-> df[i].retiro,
      rendimiento |-> df[i].rendimiento, saldo |-> df[i].saldo]]

\* df.groupby("fecha").agg({... "sum"}).reset_index(): one row per distinct
\* date, in ascending date order, holding the sums of the five columns.
groupby(df) ==
  LET keys == SortedKeys(unique(df, "fecha")) IN
  [j \in DOMAIN keys |->
     LET Test(r) == r.fecha = keys[j]
         g == SelectSeq(df, Test)
     IN [fecha |-> keys[j],
         inicial |-> sum(g, "inicial"),
         aportacion |-> sum(g, "aportacion"),
         retiro |-> sum(g, "retiro"),
         rendimiento |-> sum(g, "rendimiento"),
         saldo |-> sum(g, "saldo")]]

\* The grouping section: aggregate for "Todos", copy otherwise.
Grouping(df_filtered, concepto) ==
  IF concepto = "Todos" THEN groupby(df_filtered) ELSE df_filtered

\* df.sort_values("fecha"): the default sort (quicksort) is not stable, so
\* every arrangement of the rows in ascending date order is a possible
\* result.
sort_values(df) ==
  LET n == Len(df)
      perms == {p \in [1..n -> 1..n] :
                  /\ \A i, j \in 1..n : i # j => p[i] # p[j]
                  /\ \A i \in 1..n : i < n => df[p[i]].fecha <= df[p[i + 1]].fecha}
  IN {[i \in 1..n |-> df[p[i]]] : p \in perms}

\* A quotient of two floats, kept as the pair it is computed from.
Quotient(a, b) == [num |-> a, den |-> b]
Zero == Quotient(0, 1)

\* A plausible slip: the guard tests for a non-zero opening capital only.
rendimiento_pct_nonzero(rendimiento_total, capital_inicial) ==
  IF capital_inicial # 0
    THEN Quotient(rendimiento_total, capital_inicial)
    ELSE Zero

\* rendimiento_total / capital_inicial if capital_inicial > 0 else 0
rendimiento_pct(rendimiento_total, capital_inicial) ==
  IF capital_inicial > 0
    THEN Quotient(rendimiento_total, capital_inicial)
    ELSE Zero

NoKpis ==
  [raised |-> "not called", capital_inicial |-> 0, capital_final |-> 0,
   aportaciones |-> 0, retiros |-> 0, rendimiento_total |-> 0,
   rendimiento_pct |-> Zero]

\* The dictionary calculate_kpis builds from a frame already in order.
Kpis(s) ==
  [raised |-> "none",
   capital_inicial |-> s[1].inicial,
   capital_final |-> s[Len(s)].saldo,
   aportaciones |-> sum(s, "aportacion"),
   retiros |-> sum(s, "retiro"),
   rendimiento_total |-> sum(s, "rendimiento"),
   rendimiento_pct |-> rendimiento_pct(sum(s, "rendimiento"), s[1].inicial)]

\* A plausible slip: the frame is read in storage order, not date order.
calculate_kpis_unsorted(df) ==
  IF df = <<>> THEN {[NoKpis EXCEPT !.raised = "IndexError"]}
  ELSE {Kpis(df)}

\* calculate_kpis(df): the possible results. On an empty frame iloc[0]
\* raises IndexError.
calculate_kpis(df) ==
  IF df = <<>> THEN {[NoKpis EXCEPT !.raised = "IndexError"]}
  ELSE {Kpis(s) : s \in sort_values(df)}

\* A plausible slip: the panel computes the KPIs without the empty check.
KPIsPanel_unguarded(df_grouped) ==
  {[stage |-> "rendered", kpis_input |-> df_grouped, kpis |-> k] :
     k \in calculate_kpis(df_grouped)}

\* The KPIs panel: stop with the warning on an empty frame, otherwise call
\* calculate_kpis on it.
KPIsPanel(df_grouped) ==
  IF df_grouped = <<>>
    THEN {[stage |-> "no rows for filters", kpis_input |-> <<>>,
           kpis |-> NoKpis]}
    ELSE {[stage |-> "rendered", kpis_input |-> df_grouped, kpis |-> k] :
            k \in calculate_kpis(df_grouped)}

\* The chart: df_grouped.sort_values("fecha")[["fecha", "saldo"]].
Chart(df_grouped) ==
  {[i \in DOMAIN s |-> [fecha |-> s[i].fecha, saldo |-> s[i].saldo]] :
     s \in sort_values(df_grouped)}

\* --------------------------------------------------- sidebar: file section
\* What the upload widget holds when the user supplied no file (None).
NoFile == [name |-> "", readable |-> FALSE, columns |-> {}, rows |-> <<>>]

\* if uploaded: save_upload(uploaded)
UploadControl(d, lock, uploaded, timestamp) ==
  IF uploaded = NoFile
    THEN [db |-> d, outcome |-> "not called", leaked |-> FALSE]
    ELSE save_upload(d, lock, uploaded, timestamp, 0)

\* The dictionary upload_list: label "filename - timestamp" -> upload_id;
\* a later row of uploads_df overwrites an earlier one with the same label.
upload_list(uploads_df) ==
  LET Label(u) == <<u.filename, u.timestamp>>
      labels == {Label(uploads_df[i]) : i \in DOMAIN uploads_df}
  IN [k \in labels |->
        LET i == CHOOSE i \in DOMAIN uploads_df :
                   /\ Label(uploads_df[i]) = k
                   /\ \A j \in DOMAIN uploads_df :
                        Label(uploads_df[j]) = k => j <= i
        IN uploads_df[i].upload_id]

\* What the user can do in the delete control: nothing when no upload is
\* listed, otherwise pick a label and press the button or not.
DeleteChoices(d, buttons) ==
  LET list == upload_list(get_uploads(d)) IN
  IF Len(get_uploads(d)) > 0
    THEN {[shown |-> TRUE, upload_id |-> list[k], pressed |-> b] :
            k \in DOMAIN list, b \in buttons}
    ELSE {[shown |-> FALSE, upload_id |-> 0, pressed |-> FALSE]}

\* if st.sidebar.button(...): delete_upload(upload_list[selected_upload])
DeleteControl(d, lock, choice) ==
  IF choice.pressed
    THEN delete_upload(d, lock, choice.upload_id, 0)
    ELSE [db |-> d, outcome |-> "not called", leaked |-> FALSE]

\* ----------------------------------------------------------------- inputs
Row(fecha, centro, concepto, m) ==
  [Fecha |-> fecha, Centro |-> centro, Concepto |-> concepto,
   Inicial |-> m[1], Aportacion |-> m[2], Retiro |-> m[3],
   Rendimiento |-> m[4], Saldo |-> m[5]]

SeqsUpTo(S, n) == UNION {[1..k -> S] : k \in 0..n}

\* Rows of the spreadsheets handed to save_upload in Spec: a well-formed
\* row, a row whose Fecha cell is a text that is no date, and a row with a
\* cell sqlite3 cannot bind.
StoreRows ==
  {Row(Timestamp(1), "A", "X", <<2, 0, 1, 1, 2>>),
   Row(Text("abc"), "A", "X", <<2, 0, 1, 1, 2>>),
   Row(Timestamp(1), TimeCell, "X", <<2, 0, 1, 1, 2>>)}

\* Spreadsheets: one that read_excel cannot read, readable ones with every
\* expected header, and readable ones of well-formed rows with the "Saldo"
\* header missing.
Files ==
  {[name |-> "bad.xlsx", readable |-> FALSE, columns |-> Expected,
    rows |-> <<>>]}
  \cup
  {[name |-> "a.xlsx", readable |-> TRUE, columns |-> Expected, rows |-> rs] :
     rs \in SeqsUpTo(StoreRows, MaxRows)}
  \cup
  {[name |-> "a.xlsx", readable |-> TRUE, columns |-> Expected \ {"Saldo"},
    rows |-> rs] :
     rs \in SeqsUpTo({Row(Timestamp(1), "A", "X", <<2, 0, 1, 1, 2>>)}, MaxRows)}

\* Rows of the spreadsheet behind the store of SpecView: in centro "A",
\* per day a row of concepto "X" with a negative opening balance and a row
\* of concepto "Y" with a positive one, and one row of concepto "X" with a
\* zero opening balance; one row of centro "B".
ViewRows ==
  {Row(Timestamp(d), "A", "X", <<0 - 1, 1, 0, 2, 2>>) : d \in Days}
  \cup {Row(Timestamp(d), "A", "Y", <<2, 0, 1, 1, 3>>) : d \in Days}
  \cup {Row(Timestamp(1), "A", "X", <<0, 2, 1, 0, 1>>),
        Row(Timestamp(1), "B", "X", <<1, 1, 1, 1, 2>>)}

ViewFiles ==
  {[name |-> "a.xlsx", readable |-> TRUE, columns |-> Expected, rows |-> rs] :
     rs \in SeqsUpTo(ViewRows, MaxFacts)}

\* What st.date_input can return: no date, one date, or a range.
DateRanges ==
  {<<>>} \cup {<<d>> : d \in Days}
  \cup UNION {{<<s, e>> : e \in s..MaxDay} : s \in Days}

\* Upload ids delete_upload is called with directly.
UploadIds == 1..(MaxClock + 1)

\* ---------------------------------------------------------------- actions
NoCall ==
  [op |-> "none", before |-> init_db, locked_before |-> FALSE,
   file |-> NoFile, upload_id |-> 0, kill_at |-> 0, outcome |-> "none"]

NoView ==
  [stage |-> "none", centro |-> "", concepto |-> "", date_range |-> <<>>,
   df_filtered |-> <<>>, df_grouped |-> <<>>, kpis_input |-> <<>>,
   kpis |-> NoKpis, df_plot |-> <<>>,
   upload_reached |-> FALSE, save_called |-> FALSE,
   delete_reached |-> FALSE, delete_called |-> FALSE]

Init ==
  /\ db = init_db
  /\ locked = FALSE
  /\ clock = 0
  /\ last = NoCall
  /\ view = NoView

\* A call of save_upload(file); the process may be killed part-way.
SaveUpload ==
  \E file \in Files :
  \E kill_at \in 0..(Len(file.rows) + 1) :
    /\ clock < MaxClock
    /\ LET r == save_upload(db, locked, file, clock + 1, kill_at) IN
       /\ db' = r.db
       /\ locked' = ((locked \/ r.leaked) /\ r.outcome # "killed")
       /\ last' = [op |-> "save_upload", before |-> db,
                   locked_before |-> locked, file |-> file, upload_id |-> 0,
                   kill_at |-> kill_at, outcome |-> r.outcome]
    /\ clock' = clock + 1
    /\ UNCHANGED view

\* A call of delete_upload(upload_id); the process may be killed part-way.
DeleteUpload ==
  \E upload_id \in UploadIds, kill_at \in 0..2 :
    /\ LET r == delete_upload(db, locked, upload_id, kill_at) IN
       /\ db' = r.db
       /\ locked' = ((locked \/ r.leaked) /\ r.outcome # "killed")
       /\ last' = [op |-> "delete_upload", before |-> db,
                   locked_before |-> locked, file |-> NoFile,
                   upload_id |-> upload_id, kill_at |-> kill_at,
                   outcome |-> r.outcome]
    /\ UNCHANGED <<clock, view>>

\* The interpreter collects a connection left open by a failed call: its
\* pending transaction is rolled back and the write lock released.
Collect ==
  /\ locked
  /\ locked' = FALSE
  /\ UNCHANGED <<db, clock, last, view>>

\* One run of the script, top to bottom, with the widget values the user
\* chose: `files` is what the upload widget may hold, `buttons` whether the
\* delete button may be pressed.
Script(files, buttons) ==
  LET ld == load_data(db)
      Ran(stage, file) ==
        [op |-> "script", before |-> db, locked_before |-> locked,
         file |-> file, upload_id |-> 0, kill_at |-> 0, outcome |-> stage]
  IN
  IF ld.raised THEN
    /\ view' = [NoView EXCEPT !.stage = "load_data raised"]
    /\ last' = Ran("load_data raised", NoFile)
    /\ UNCHANGED <<db, locked, clock>>
  ELSE IF ld.df = <<>> THEN
    /\ view' = [NoView EXCEPT !.stage = "no data loaded"]
    /\ last' = Ran("no data loaded", NoFile)
    /\ UNCHANGED <<db, locked, clock>>
  ELSE
    \E centro \in unique(ld.df, "centro") :
    \E concepto \in {"Todos"} \cup unique(FilterCentro(ld.df, centro), "concepto") :
    \E date_range \in DateRanges :
    \E uploaded \in files :
      LET df_filtered ==
            FilterFecha(FilterConcepto(FilterCentro(ld.df, centro), concepto),
                        date_range)
          df_grouped == Grouping(df_filtered, concepto)
          up == UploadControl(db, locked, uploaded, clock + 1)
          seen == [NoView EXCEPT
                     !.centro = centro, !.concepto = concepto,
                     !.date_range = date_range,
                     !.df_filtered = df_filtered, !.df_grouped = df_grouped,
                     !.upload_reached = TRUE,
                     !.save_called = (uploaded # NoFile)]
      IN
      /\ uploaded # NoFile => clock < MaxClock
      /\ clock' = IF uploaded # NoFile THEN clock + 1 ELSE clock
      /\ IF up.outcome \notin {"not called", "returned"} THEN
           /\ view' = [seen EXCEPT !.stage = "save_upload raised"]
           /\ last' = Ran("save_upload raised", uploaded)
           /\ db' = up.db
           /\ locked' = (locked \/ up.leaked)
         ELSE
           \E choice \in DeleteChoices(up.db, buttons) :
             LET del == DeleteControl(up.db, locked, choice)
                 listed == [seen EXCEPT !.delete_reached = TRUE,
                                        !.delete_called = choice.pressed]
             IN
             /\ db' = del.db
             /\ locked' = (locked \/ del.leaked)
             /\ IF del.outcome \notin {"not called", "returned"} THEN
                  /\ view' = [listed EXCEPT !.stage = "delete_upload raised"]
                  /\ last' = Ran("delete_upload raised", uploaded)
                ELSE
                  \E panel \in KPIsPanel(df_grouped) :
                  \E plot \in (IF panel.stage = "rendered"
                                    /\ panel.kpis.raised = "none"
                                 THEN Chart(df_grouped) ELSE {<<>>}) :
                    /\ view' = [listed EXCEPT
                                  !.stage = panel.stage,
                                  !.kpis_input = panel.kpis_input,
                                  !.kpis = panel.kpis,
                                  !.df_plot = plot]
                    /\ last' = Ran(panel.stage, uploaded)

\* The store's functions called one at a time.
Next == SaveUpload \/ DeleteUpload \/ Collect

Spec == Init /\ [][Next]_vars

\* The application: script runs driven by the user, next to the calls above.
UserScript == Script(Files \cup {NoFile}, BOOLEAN)

NextApp == SaveUpload \/ DeleteUpload \/ Collect \/ UserScript

SpecApp == Init /\ [][NextApp]_vars

\* The reporter alone: a store holding one ingested spreadsheet, and script
\* runs in which the user only moves the filters.
InitView ==
  \E file \in ViewFiles :
    /\ db = save_upload(init_db, FALSE, file, 1, 0).db
    /\ locked = FALSE
    /\ clock = 1
    /\ last = [NoCall EXCEPT !.op = "save_upload", !.file = file,
                             !.outcome = "returned"]
    /\ view = NoView

\* One run per behaviour: the store does not change here, so a second run
\* computes the views of the first.
FilterScript == last.op # "script" /\ Script({NoFile}, {FALSE})

NextView == FilterScript

SpecView == InitView /\ [][NextView]_vars

\* ----------------------------------------------------------------- claims
Ids(d) == {d.uploads[i].upload_id : i \in DOMAIN d.uploads}

\* The rows of a table that belong to other uploads than u, in table order.
Others(table, u) ==
  LET Test(r) == r.upload_id # u IN SelectSeq(table, Test)

\* The sum of a column over the rows of df with index in I.
RECURSIVE SetSum(_, _, _)
SetSum(I, df, col) ==
  IF I = {} THEN 0
  ELSE LET i == CHOOSE i \in I : TRUE IN
       df[i][col] + SetSum(I \ {i}, df, col)

\* The frame the latest script run loaded.
Loaded == load_data(last.before).df

\* The indices of the rows of that frame that match the run's category,
\* sub-category and date range; those of one date; the dates that occur.
Matching(df) ==
  {i \in DOMAIN df :
     /\ df[i].centro = view.centro
     /\ view.concepto = "Todos" \/ df[i].concepto = view.concepto
     /\ Len(view.date_range) = 2 =>
          /\ df[i].fecha >= view.date_range[1]
          /\ df[i].fecha <= view.date_range[2]}

On(df, M, d) == {i \in M : df[i].fecha = d}

Dates(df, M) == {df[i].fecha : i \in M}

First(D) == CHOOSE d \in D : \A e \in D : d <= e

Last(D) == CHOOSE d \in D : \A e \in D : e <= d

\* C1: in every committed store state every fact_capital row carries an
\* upload_id that identifies exactly one uploads row (no orphaned fact
\* rows), whatever calls of save_upload and delete_upload ran and wherever
\* they were interrupted.
C1_NoOrphanFacts ==
  \A i \in DOMAIN db.fact_capital :
    Cardinality({j \in DOMAIN db.uploads :
                   db.uploads[j].upload_id = db.fact_capital[i].upload_id}) = 1

\* C1 witness: delete_upload was killed after its first DELETE on an upload
\* that owns fact rows.
C1_Witness ==
  /\ last.op = "delete_upload"
  /\ last.outcome = "killed"
  /\ last.kill_at = 1
  /\ \E i \in DOMAIN db.fact_capital :
       db.fact_capital[i].upload_id = last.upload_id

\* C2: after delete_upload(u) returns for an existing u, get_uploads and
\* load_data (and the fact table itself) hold no row of u, and the rows of
\* every other upload are as they were.
C2_DeleteRemovesBatch ==
  (/\ last.op = "delete_upload"
   /\ last.outcome = "returned"
   /\ last.upload_id \in Ids(last.before))
  =>
  LET u == last.upload_id
      ups == get_uploads(db)
      df == load_data(db).df
  IN /\ \A i \in DOMAIN ups : ups[i].upload_id # u
     /\ \A i \in DOMAIN df : df[i].upload_id # u
     /\ \A i \in DOMAIN db.fact_capital : db.fact_capital[i].upload_id # u
     /\ db.uploads = Others(last.before.uploads, u)
     /\ db.fact_capital = Others(last.before.fact_capital, u)

\* C2 witness: a batch with fact rows was deleted next to another batch
\* whose fact rows stay.
C2_Witness ==
  /\ last.op = "delete_upload"
  /\ last.outcome = "returned"
  /\ last.upload_id \in Ids(last.before)
  /\ db.fact_capital # <<>>
  /\ Len(db.fact_capital) < Len(last.before.fact_capital)

\* C3: a save_upload that does not return (unreadable spreadsheet, missing
\* header, a row that cannot be inserted, a killed process) commits
\* nothing: the committed store, and so what get_uploads and load_data
\* return, is what it was before the call.
C3_FailedSaveCommitsNothing ==
  (last.op = "save_upload" /\ last.outcome # "returned")
  =>
  /\ db = last.before
  /\ get_uploads(db) = get_uploads(last.before)
  /\ load_data(db) = load_data(last.before)

\* C3 witness: the second data row could not be inserted after the uploads
\* row and the first data row had been, on a store that held data already.
C3_Witness ==
  /\ last.op = "save_upload"
  /\ last.outcome = "ProgrammingError"
  /\ Len(last.file.rows) = 2
  /\ Bindable(last.file.rows[1])
  /\ last.before.fact_capital # <<>>

\* C4: a save_upload that returns for a spreadsheet with all expected
\* columns and N data rows adds exactly one uploads row with a fresh id and
\* N fact rows tagged with it, and load_data afterwards returns those N
\* rows with fields equal to the source cells.
C4_RoundTrip ==
  (/\ last.op = "save_upload"
   /\ last.outcome = "returned"
   /\ Expected \subseteq last.file.columns)
  =>
  LET rows == last.file.rows
      n == Len(db.uploads)
      u == db.uploads[n].upload_id
      Mine(r) == r.upload_id = u
      ld == load_data(db)
      got == SelectSeq(ld.df, Mine)
  IN /\ n = Len(last.before.uploads) + 1
     /\ SubSeq(db.uploads, 1, n - 1) = last.before.uploads
     /\ u \notin Ids(last.before)
     /\ Others(db.fact_capital, u) = last.before.fact_capital
     /\ Len(SelectSeq(db.fact_capital, Mine)) = Len(rows)
     /\ ~ld.raised
     /\ Len(got) = Len(rows)
     /\ \A i \in DOMAIN got :
          /\ rows[i].Fecha = Timestamp(got[i].fecha)
          /\ got[i].centro = rows[i].Centro
          /\ got[i].concepto = rows[i].Concepto
          /\ got[i].inicial = rows[i].Inicial
          /\ got[i].aportacion = rows[i].Aportacion
          /\ got[i].retiro = rows[i].Retiro
          /\ got[i].rendimiento = rows[i].Rendimiento
          /\ got[i].saldo = rows[i].Saldo

\* C5: for a non-empty filtered row set the KPIs are computed, the three
\* totals are the sums over all filtered source rows, and capital_inicial /
\* capital_final are the opening balance of a first row / the closing
\* balance of a last row in ascending date order; under "Todos" the rows
\* are the per-date sums, so they are the summed opening balance of the
\* first date and the summed closing balance of the last.
C5_Kpis ==
  LET df == Loaded
      M == Matching(df)
      D == Dates(df, M)
      k == view.kpis
  IN
  (last.op = "script" /\ view.upload_reached /\ M # {})
  =>
  /\ view.stage # "no rows for filters"
  /\ view.stage = "rendered" =>
       /\ k.raised = "none"
       /\ k.aportaciones = SetSum(M, df, "aportacion")
       /\ k.retiros = SetSum(M, df, "retiro")
       /\ k.rendimiento_total = SetSum(M, df, "rendimiento")
       /\ IF view.concepto = "Todos"
            THEN /\ k.capital_inicial =
                      SetSum(On(df, M, First(D)), df, "inicial")
                 /\ k.capital_final =
                      SetSum(On(df, M, Last(D)), df, "saldo")
            ELSE /\ \E i \in On(df, M, First(D)) :
                      k.capital_inicial = df[i].inicial
                 /\ \E i \in On(df, M, Last(D)) :
                      k.capital_final = df[i].saldo

\* C5 witness: under "Todos", three source rows on two dates were summed
\* into two rows and the KPIs computed.
C5_Witness ==
  /\ last.op = "script"
  /\ view.stage = "rendered"
  /\ view.concepto = "Todos"
  /\ Cardinality(Matching(Loaded)) = 3
  /\ Len(view.df_grouped) = 2

\* C6: whenever calculate_kpis is called on a non-empty row set it returns,
\* and rendimiento_pct is rendimiento_total / capital_inicial for a positive
\* capital_inicial and 0 otherwise; no quotient by a zero or negative
\* opening capital is ever formed.
C6_ReturnPercent ==
  (view.kpis.raised # "not called" /\ view.kpis_input # <<>>)
  =>
  LET k == view.kpis IN
  /\ k.raised = "none"
  /\ k.capital_inicial > 0 =>
       k.rendimiento_pct = Quotient(k.rendimiento_total, k.capital_inicial)
  /\ k.capital_inicial <= 0 => k.rendimiento_pct = Zero
  /\ k.rendimiento_pct.den > 0

\* C6 witness: KPIs over rows with a negative opening capital and a
\* non-zero total return.
C6_Witness ==
  /\ last.op = "script"
  /\ view.stage = "rendered"
  /\ view.kpis.capital_inicial < 0
  /\ view.kpis.rendimiento_total # 0

\* C7: in every script run calculate_kpis is called only with a non-empty
\* row set; when the store holds no fact rows or the filters select no row
\* calculate_kpis is not called, and a run that gets as far as the KPIs
\* panel stops there in the no-data state.
C7_KpisOnlyOnRows ==
  last.op = "script"
  =>
  /\ view.kpis.raised # "not called" => view.kpis_input # <<>>
  /\ last.before.fact_capital = <<>> =>
       (view.stage = "no data loaded" /\ view.kpis.raised = "not called")
  /\ (view.upload_reached /\ Matching(Loaded) = {}) =>
       /\ view.kpis.raised = "not called"
       /\ view.stage \in {"no rows for filters", "save_upload raised",
                          "delete_upload raised"}
       /\ (~view.save_called /\ ~view.delete_called) =>
            view.stage = "no rows for filters"

\* C7 witness: a date range that excludes every row of the chosen category.
C7_Witness ==
  /\ last.op = "script"
  /\ view.stage = "no rows for filters"
  /\ Len(view.date_range) = 2
  /\ last.before.fact_capital # <<>>

\* C8: under "Todos" the charted series is strictly ascending in date,
\* holds each distinct date of the filtered rows exactly once, and is the
\* function of the filtered rows that pairs each date with the sum of saldo
\* over the rows of that date.
C8_Series ==
  (last.op = "script" /\ view.stage = "rendered" /\ view.concepto = "Todos")
  =>
  LET p == view.df_plot
      df == Loaded
      M == Matching(df)
      D == Dates(df, M)
  IN
  /\ \A i, j \in DOMAIN p : i < j => p[i].fecha < p[j].fecha
  /\ {p[i].fecha : i \in DOMAIN p} = D
  /\ Len(p) = Cardinality(D)
  /\ \A i \in DOMAIN p :
       p[i].saldo = SetSum(On(df, M, p[i].fecha), df, "saldo")

\* C8 witness: a series of two dates drawn from three filtered rows.
C8_Witness ==
  /\ last.op = "script"
  /\ view.stage = "rendered"
  /\ view.concepto = "Todos"
  /\ Len(view.df_plot) = 2
  /\ Cardinality(Matching(Loaded)) = 3

\* C9: delete_upload with an id that identifies no uploads row raises no
\* fault and leaves both tables as they were.
C9_DeleteMissingIsNoOp ==
  (last.op = "delete_upload" /\ last.upload_id \notin Ids(last.before))
  =>
  /\ last.outcome \in {"returned", "killed"}
  /\ db.uploads = last.before.uploads
  /\ db.fact_capital = last.before.fact_capital

\* C10: every script run reaches the upload control and the delete control
\* (also when load_data returns an empty frame), and calls save_upload when
\* the user supplied a file.
C10_ControlsReached ==
  last.op = "script"
  =>
  /\ view.upload_reached
  /\ view.delete_reached
  /\ last.file # NoFile => view.save_called

====
